---------------------------- MODULE Spec2Model ----------------------------
(***************************************************************************)
(* A model of the feed-forward neural network of this repository, in its   *)
(* two implementations:                                                     *)
(*   - the C++ classes neuron / layer / neuralNetwork                       *)
(*     (src/unnamed/part_000), and                                          *)
(*   - the Java classes Neuron / Layer / NeuralNetworkImpl                   *)
(*     (src/projectN/neuralNetwork.cpp, lines 29-295).                      *)
(*                                                                         *)
(* A behaviour is the life of one network object: it is constructed from a *)
(* sequence of layer sizes, then activate / activateLayer / forward and    *)
(* the accessors are called on it any number of times, and the trace a     *)
(* forward call returned is handed to saveAsJson.                          *)
(*                                                                         *)
(* Numbers.  The programs compute in binary64.  The model computes in a    *)
(* binary fixed-point format with FracBits fractional bits: the integer n  *)
(* stands for n / One.  Every arithmetic step rounds to the nearest        *)
(* representable value, as the floating-point operations do, so that what  *)
(* finite precision does to a result (1.0 + exp(-x) rounding to 1.0, a     *)
(* quotient rounding to 0) happens in the model too, only at smaller       *)
(* magnitudes than in binary64.                                            *)
(***************************************************************************)
EXTENDS Integers, Sequences, FiniteSets, TLC

(***************************************************************************)
(* Bounds of the model.                                                    *)
(***************************************************************************)
MaxLayers == 2      \* layer-size sequences have 0..MaxLayers entries
MaxNeurons == 2     \* a layer size is drawn from -1..MaxNeurons
FracBits == 3       \* fractional bits of the fixed-point numbers

One == 2 ^ FracBits

\* The seeds a neuron's random engine may be given (random_device / new Random()).
Seeds == {0, 1}

\* The values the model's normal distribution can produce.
GaussVals == << -2 * One, -One, 0, One, 2 * One >>

\* The components of the input vectors the callers pass.
InputVals == { -One, 2 * One }

Max0(n) == IF n > 0 THEN n ELSE 0

\* All sequences over S of length 0..n.
SeqsUpTo(S, n) == UNION { [1..k -> S] : k \in 0..n }

LayerSizeSeqs == SeqsUpTo(-1..MaxNeurons, MaxLayers)

InputVecs == SeqsUpTo(InputVals, MaxNeurons)

(***************************************************************************)
(* Fixed-point arithmetic.                                                 *)
(***************************************************************************)
\* a / b rounded to the nearest integer (b > 0), halves rounded up.
RDiv(a, b) == (2 * a + b) \div (2 * b)

\* The product of two fixed-point numbers, rounded.
FMul(a, b) == RDiv(a * b, One)

\* The quotient of two fixed-point numbers, rounded (b > 0).
FDiv(a, b) == RDiv(a * One, b)

\* e^q in thousandths, for the whole numbers q the model's sums reach.
EPow == [q \in -4..5 |->
           CASE q = -4 -> 18     [] q = -3 -> 50     [] q = -2 -> 135
             [] q = -1 -> 368    [] q = 0 -> 1000    [] q = 1 -> 2718
             [] q = 2 -> 7389    [] q = 3 -> 20086   [] q = 4 -> 54598
             [] q = 5 -> 148413]

\* e^(r/One) in thousandths for 0 <= r < One: the Taylor polynomial of degree
\* 5 in Horner form, 1 + x(1 + x/2(1 + x/3(1 + x/4(1 + x/5)))).
RECURSIVE ExpFrac(_, _)
ExpFrac(r, k) ==
    IF k > 5 THEN 1000
    ELSE 1000 + RDiv(ExpFrac(r, k + 1) * r, k * One)

\* exp of the C and Java libraries on fixed-point numbers: e^(x/One), rounded
\* to the format.  Below the table the result underflows to 0; above it the
\* result is the format's largest value (the overflow to infinity).
exp(x) ==
    LET q == x \div One
        r == x % One
    IN  IF q < -4 THEN 0
        ELSE IF q > 5 THEN RDiv(EPow[5] * 2718, 1000) * One
        ELSE RDiv(RDiv(EPow[q] * ExpFrac(r, 1), 1000) * One, 1000)


(***************************************************************************)
(* Random initialisation.  A neuron's constructor seeds an engine of its   *)
(* own (random_device, new Random()) and draws its weights and then its    *)
(* bias from it: the values are a function of the seed and of the position *)
(* of the draw.                                                            *)
(***************************************************************************)
\* The engine's state after k draws from `seed`.
RECURSIVE EngineState(_, _)
EngineState(seed, k) ==
    IF k = 0 THEN seed ELSE (3 * EngineState(seed, k - 1) + 1) % Len(GaussVals)

\* The k-th value a normal_distribution / nextGaussian draws from `seed`.
Gauss(seed, k) == GaussVals[EngineState(seed, k) + 1]

\* One seed per neuron of each layer the constructor gets to build.
RECURSIVE SeedRows(_)
SeedRows(layerSizes) ==
    IF layerSizes = << >> THEN { << >> }
    ELSE { << row >> \o rest : row \in [1..Max0(Head(layerSizes)) -> Seeds],
                               rest \in SeedRows(Tail(layerSizes)) }

(***************************************************************************)
(* C++: neuron, layer, neuralNetwork (src/unnamed/part_000).               *)
(***************************************************************************)
\* neuron::neuron(int numInputs): weights.resize(numInputs), each weight drawn,
\* then the bias.
neuron(numInputs, seed) ==
    [weights |-> [k \in 1..numInputs |-> Gauss(seed, k)],
     bias    |-> Gauss(seed, numInputs + 1)]

\* layer::layer(numNeurons, numInputsPerNeuron).  reserve() of a negative count
\* (converted to size_t) throws std::length_error before any neuron is built;
\* so does weights.resize() of a negative numInputs in the first neuron.
layer(numNeurons, numInputsPerNeuron, seedRow) ==
    IF numNeurons < 0 \/ (numNeurons > 0 /\ numInputsPerNeuron < 0)
    THEN [ok |-> FALSE, neurons |-> << >>, draws |-> 0]
    ELSE [ok      |-> TRUE,
          neurons |-> [j \in 1..numNeurons |->
                          neuron(numInputsPerNeuron, seedRow[j])],
          draws   |-> numNeurons * (numInputsPerNeuron + 1)]

\* A first layer wired as the Java constructor wires it: as many inputs as it
\* has neurons.
numInputs_ownCount(layerSizes, i) ==
    IF i = 1 THEN layerSizes[1] ELSE layerSizes[i - 1]

\* Line 112: int numInputs = (i==0) ? 0 : layerSizes[i-1];  (i is 1-based here)
numInputs(layerSizes, i) == IF i = 1 THEN 0 ELSE layerSizes[i - 1]

\* neuralNetwork::neuralNetwork(const vector<int>& layerSizes): the loop from
\* its i-th iteration on, with the layers built and the draws made so far.
RECURSIVE neuralNetworkFrom(_, _, _, _, _)
neuralNetworkFrom(layerSizes, seeds, i, built, draws) ==
    IF i > Len(layerSizes)
    THEN [ok |-> TRUE, layers |-> built, draws |-> draws]
    ELSE LET l == layer(layerSizes[i], numInputs(layerSizes, i), seeds[i])
         IN  IF ~l.ok
             THEN [ok |-> FALSE, layers |-> << >>, draws |-> draws]
             ELSE neuralNetworkFrom(layerSizes, seeds, i + 1,
                                    Append(built, l.neurons), draws + l.draws)

(***************************************************************************)
(* Java: Neuron, Layer, NeuralNetworkImpl                                  *)
(* (src/projectN/neuralNetwork.cpp).                                       *)
(***************************************************************************)
\* Neuron(int numInputs)
Neuron(numInputs_, seed) ==
    [weights |-> [k \in 1..numInputs_ |-> Gauss(seed, k)],
     bias    |-> Gauss(seed, numInputs_ + 1)]

\* Layer(numNeurons, numInputsPerNeuron): new ArrayList<>(n) throws
\* IllegalArgumentException for n < 0, in Layer and in Neuron.
Layer(numNeurons, numInputsPerNeuron, seedRow) ==
    IF numNeurons < 0 \/ (numNeurons > 0 /\ numInputsPerNeuron < 0)
    THEN [ok |-> FALSE, neurons |-> << >>, draws |-> 0]
    ELSE [ok      |-> TRUE,
          neurons |-> [j \in 1..numNeurons |->
                          Neuron(numInputsPerNeuron, seedRow[j])],
          draws   |-> numNeurons * (numInputsPerNeuron + 1)]

\* Lines 195-201: the first layer's inputs are its own neuron count, a later
\* layer's the neuron count of the layer before it.
firstInputSize(layerSizes, i) ==
    IF i = 1 THEN layerSizes[1] ELSE layerSizes[i - 1]

RECURSIVE NeuralNetworkImplFrom(_, _, _, _, _)
NeuralNetworkImplFrom(layerSizes, seeds, i, built, draws) ==
    IF i > Len(layerSizes)
    THEN [ok |-> TRUE, layers |-> built, draws |-> draws]
    ELSE LET l == Layer(layerSizes[i], firstInputSize(layerSizes, i), seeds[i])
         IN  IF ~l.ok
             THEN [ok |-> FALSE, layers |-> << >>, draws |-> draws]
             ELSE NeuralNetworkImplFrom(layerSizes, seeds, i + 1,
                                        Append(built, l.neurons), draws + l.draws)

\* NeuralNetworkImpl(List<Integer> layerSizes): fewer than 2 layers throw first.
NeuralNetworkImpl(layerSizes, seeds) ==
    IF Len(layerSizes) < 2
    THEN [ok |-> FALSE, layers |-> << >>, draws |-> 0]
    ELSE NeuralNetworkImplFrom(layerSizes, seeds, 1, << >>, 0)

(***************************************************************************)
(* Activation.  A call's outcome is a record [kind, val]: kind is "ok",    *)
(* the exception thrown, or "crash"; val is the sequence of vectors        *)
(* returned (a scalar x is << <<x>> >>, a vector v is << v >>).            *)
(***************************************************************************)
Ok(val) == [kind |-> "ok", val |-> val]
Fail(kind) == [kind |-> kind, val |-> << >>]

\* What reading past the end of a C++ vector may do: abort the process, or
\* yield whatever lies there.
Junk == { [crash |-> TRUE, val |-> 0] }
        \cup { [crash |-> FALSE, val |-> v] : v \in InputVals \cup {0} }
NoJunk == [crash |-> FALSE, val |-> 0]

\* A sigmoid that lost the "1.0 +" of its denominator: 1.0 / exp(-sum).
sigmoid_noOnePlus(sum) == FDiv(One, IF exp(-sum) > 0 THEN exp(-sum) ELSE 1)

\* neuron::sigmoid / Neuron.sigmoid: 1.0 / (1.0 + exp(-sum))
sigmoid(sum) == FDiv(One, One + exp(-sum))

\* neuron::neuronActivate, the loop from index i on (1-based) with the sum so
\* far: sum += weights[i] * inputs[i], inputs[i] unchecked.
RECURSIVE neuronSum(_, _, _, _, _)
neuronSum(n, inputs, i, sum, junk) ==
    IF i > Len(n.weights) THEN sum
    ELSE neuronSum(n, inputs, i + 1,
                   sum + FMul(n.weights[i],
                              IF i <= Len(inputs) THEN inputs[i] ELSE junk.val),
                   junk)

\* neuron::neuronActivate(inputs)
neuronActivate(n, inputs, junk) ==
    IF Len(inputs) < Len(n.weights) /\ junk.crash THEN Fail("crash")
    ELSE Ok(<< << sigmoid(neuronSum(n, inputs, 1, n.bias, junk)) >> >>)

\* A layerActivate that puts each output in front of the earlier ones.
layerActivate_reversed(neurons, inputs, junk) ==
    IF \E j \in 1..Len(neurons) : neuronActivate(neurons[j], inputs, junk).kind # "ok"
    THEN Fail("crash")
    ELSE Ok(<< [j \in 1..Len(neurons) |->
                  neuronActivate(neurons[Len(neurons) + 1 - j], inputs, junk).val[1][1]] >>)

\* layer::layerActivate(inputs): outputs.push_back(neuron.neuronActivate(inputs))
\* for each neuron in order.
layerActivate(neurons, inputs, junk) ==
    IF \E j \in 1..Len(neurons) : neuronActivate(neurons[j], inputs, junk).kind # "ok"
    THEN Fail("crash")
    ELSE Ok(<< [j \in 1..Len(neurons) |->
                  neuronActivate(neurons[j], inputs, junk).val[1][1]] >>)

\* neuralNetwork::forward, the loop from layer i on with the trace so far.
RECURSIVE forwardFrom(_, _, _, _)
forwardFrom(ls, i, allOutputs, junk) ==
    IF i > Len(ls) THEN Ok(allOutputs)
    ELSE LET r == layerActivate(ls[i], allOutputs[Len(allOutputs)], junk)
         IN  IF r.kind # "ok" THEN r
             ELSE forwardFrom(ls, i + 1, Append(allOutputs, r.val[1]), junk)

\* neuralNetwork::forward(inputs)
forward(ls, inputs, junk) == forwardFrom(ls, 1, << inputs >>, junk)

\* Neuron.sigmoid
Neuron_sigmoid(x) == FDiv(One, One + exp(-x))

\* Neuron.activate, the loop of lines 96-98.
RECURSIVE activateSum(_, _, _, _)
activateSum(n, inputs, i, sum) ==
    IF i > Len(n.weights) THEN sum
    ELSE activateSum(n, inputs, i + 1, sum + FMul(n.weights[i], inputs[i]))

\* Neuron.activate(inputs)
activate(n, inputs) ==
    IF Len(inputs) # Len(n.weights) THEN Fail("IllegalArgumentException")
    ELSE Ok(<< << Neuron_sigmoid(activateSum(n, inputs, 1, n.bias)) >> >>)

\* Layer.activateLayer(inputs): the first neuron that throws ends the call.
activateLayer(neurons, inputs) ==
    IF \E j \in 1..Len(neurons) : activate(neurons[j], inputs).kind # "ok"
    THEN Fail("IllegalArgumentException")
    ELSE Ok(<< [j \in 1..Len(neurons) |-> activate(neurons[j], inputs).val[1][1]] >>)

RECURSIVE NeuralNetworkImpl_forwardFrom(_, _, _)
NeuralNetworkImpl_forwardFrom(ls, i, allOutputs) ==
    IF i > Len(ls) THEN Ok(allOutputs)
    ELSE LET r == activateLayer(ls[i], allOutputs[Len(allOutputs)])
         IN  IF r.kind # "ok" THEN r
             ELSE NeuralNetworkImpl_forwardFrom(ls, i + 1, Append(allOutputs, r.val[1]))

\* NeuralNetworkImpl.forward(inputs): layers.get(0).getNeurons().get(0) throws
\* IndexOutOfBoundsException when the first layer has no neuron.
NeuralNetworkImpl_forward(ls, inputs) ==
    IF Len(ls[1]) = 0 THEN Fail("IndexOutOfBoundsException")
    ELSE IF Len(inputs) # Len(ls[1][1].weights) THEN Fail("IllegalArgumentException")
    ELSE NeuralNetworkImpl_forwardFrom(ls, 1, << inputs >>)

(***************************************************************************)
(* Serialisation.  A number is written as decimal text and the record is   *)
(* an object keyed by field name; a field name "layer_<i>_input" is the    *)
(* key [name |-> "layer_input", idx |-> i].                                *)
(***************************************************************************)
\* seq[i] of a 0-based vector or list.
At0(seq, i) == seq[i + 1]

\* The decimal text of a number: sign, integer part and FracBits decimal
\* digits, which write a binary fraction of FracBits bits exactly.
Decimal(x) ==
    LET a == IF x < 0 THEN -x ELSE x
    IN  [neg |-> x < 0, int |-> a \div One, frac |-> (a % One) * 5 ^ FracBits]

\* nlohmann::json's dump of a double (round-trip digits).
dump(x) == Decimal(x)

\* Double.toString, as List.toString applies it to each element.
toString(x) == Decimal(x)

Key(name, i) == [name |-> name, idx |-> i]

\* The json object neuralNetwork::saveAsJson builds (lines 130-149).
saveAsJson_json(ls, layerOutputs) ==
    LET keys == { Key("initial_input", 0), Key("final_output", 0) }
                \cup { Key(nm, i + 1) :
                         nm \in {"layer_input", "layer_output", "layer_neurons"},
                         i \in 0..(Len(ls) - 1) }
        vec(v) == [k \in 1..Len(v) |-> dump(v[k])]
        neuronJson(n) == [weights |-> vec(n.weights), bias |-> dump(n.bias)]
    IN  [k \in keys |->
           CASE k.name = "initial_input" -> vec(At0(layerOutputs, 0))
             [] k.name = "layer_input"   -> vec(At0(layerOutputs, k.idx - 1))
             [] k.name = "layer_output"  -> vec(At0(layerOutputs, (k.idx - 1) + 1))
             [] k.name = "layer_neurons" ->
                  [j \in 1..Len(At0(ls, k.idx - 1)) |->
                      neuronJson(At0(ls, k.idx - 1)[j])]
             [] k.name = "final_output"  -> vec(layerOutputs[Len(layerOutputs)])]

\* The text NeuralNetworkImpl.saveAsJson writes (lines 233-240).
NeuralNetworkImpl_saveAsJson_json(ls, layerOutputs) ==
    LET keys == { Key("initial_input", 0), Key("final_output", 0) }
                \cup { Key(nm, i + 1) :
                         nm \in {"layer_input", "layer_output"},
                         i \in 0..(Len(ls) - 1) }
        vec(v) == [k \in 1..Len(v) |-> toString(v[k])]
    IN  [k \in keys |->
           CASE k.name = "initial_input" -> vec(At0(layerOutputs, 0))
             [] k.name = "layer_input"   -> vec(At0(layerOutputs, k.idx - 1))
             [] k.name = "layer_output"  -> vec(At0(layerOutputs, (k.idx - 1) + 1))
             [] k.name = "final_output"  ->
                  vec(At0(layerOutputs, Len(layerOutputs) - 1))]

\* What opening and writing the target file may do.
FileOutcomes == {"ok", "open_fail", "write_fail"}

NoFile == [state |-> "absent", json |-> << >>]

(***************************************************************************)
(* The state.                                                              *)
(***************************************************************************)
VARIABLES
    impl,        \* "cpp" or "java": which implementation runs
    pc,          \* "new"; "failed" (the constructor threw); "built" (the network
                 \* exists, no call pending); "returned" (a call has returned to
                 \* the caller); "saved" (saveAsJson has returned)
    layerSizes,  \* the constructor's argument
    layers,      \* the network: a sequence of layers, each a sequence of neurons
    rngDraws,    \* how many random values the constructor drew
    call,        \* the last call made on the network
    ret,         \* what that call returned or threw
    io,          \* what the file system did in the saveAsJson call
    file,        \* what that call left in its target file
    console      \* what that call printed

vars == << impl, pc, layerSizes, layers, rngDraws, call, ret, io, file, console >>

Call(op, l, j, inputs) == [op |-> op, layer |-> l, neuron |-> j, inputs |-> inputs]

Init ==
    /\ impl \in {"cpp", "java"}
    /\ pc = "new"
    /\ layerSizes = << >>
    /\ layers = << >>
    /\ rngDraws = 0
    /\ call = Call("none", 0, 0, << >>)
    /\ ret = Fail("none")
    /\ io = "none"
    /\ file = NoFile
    /\ console = ""

(***************************************************************************)
(* C++ operations.                                                         *)
(***************************************************************************)
\* An unchecked read happens only when the vector is shorter than the weights.
JunkFor(short) == IF short THEN Junk ELSE { NoJunk }

\* neuralNetwork nn(layerSizes);  The default constructor delegates to this
\* one with {3, 3, 3} (line 108): it is the case layerSizes = <<3, 3, 3>>.
neuralNetworkNew ==
    /\ pc = "new" /\ impl = "cpp"
    /\ \E ls \in LayerSizeSeqs : \E seeds \in SeedRows(ls) :
         LET r == neuralNetworkFrom(ls, seeds, 1, << >>, 0)
         IN  /\ layerSizes' = ls
             /\ layers' = r.layers
             /\ rngDraws' = r.draws
             /\ pc' = IF r.ok THEN "built" ELSE "failed"
    /\ UNCHANGED << impl, call, ret, io, file, console >>

\* A neuronActivate that accumulates the sum in the member `bias` instead of a
\* local (the method is not const).
neuronActivateCall_sumInBias ==
    /\ pc = "built" /\ impl = "cpp"
    /\ \E l \in 1..Len(layers) : \E j \in 1..Len(layers[l]) : \E inputs \in InputVecs :
         \E junk \in JunkFor(Len(inputs) < Len(layers[l][j].weights)) :
            /\ call' = Call("activate", l, j, inputs)
            /\ ret' = neuronActivate(layers[l][j], inputs, junk)
            /\ layers' = [layers EXCEPT ![l][j].bias =
                             neuronSum(layers[l][j], inputs, 1, layers[l][j].bias, junk)]
    /\ pc' = "returned"
    /\ UNCHANGED << impl, layerSizes, rngDraws, io, file, console >>

\* neuron.neuronActivate(inputs) on neuron j of layer l
neuronActivateCall ==
    /\ pc = "built" /\ impl = "cpp"
    /\ \E l \in 1..Len(layers) : \E j \in 1..Len(layers[l]) : \E inputs \in InputVecs :
         \E junk \in JunkFor(Len(inputs) < Len(layers[l][j].weights)) :
            /\ call' = Call("activate", l, j, inputs)
            /\ ret' = neuronActivate(layers[l][j], inputs, junk)
    /\ pc' = "returned"
    /\ UNCHANGED << impl, layerSizes, layers, rngDraws, io, file, console >>

\* layer.layerActivate(inputs) on layer l
layerActivateCall ==
    /\ pc = "built" /\ impl = "cpp"
    /\ \E l \in 1..Len(layers) : \E inputs \in InputVecs :
         \E junk \in JunkFor(\E j \in 1..Len(layers[l]) :
                                Len(inputs) < Len(layers[l][j].weights)) :
            /\ call' = Call("activateLayer", l, 0, inputs)
            /\ ret' = layerActivate(layers[l], inputs, junk)
    /\ pc' = "returned"
    /\ UNCHANGED << impl, layerSizes, layers, rngDraws, io, file, console >>

\* nn.forward(inputs)
forwardCall ==
    /\ pc = "built" /\ impl = "cpp"
    /\ \E inputs \in InputVecs :
         \E junk \in JunkFor(/\ Len(layers) > 0
                             /\ \E j \in 1..Len(layers[1]) :
                                   Len(inputs) < Len(layers[1][j].weights)) :
            /\ call' = Call("forward", 0, 0, inputs)
            /\ ret' = forward(layers, inputs, junk)
    /\ pc' = "returned"
    /\ UNCHANGED << impl, layerSizes, layers, rngDraws, io, file, console >>

\* neuron.getWeights(): a copy of the weights
getWeightsCall ==
    /\ pc = "built" /\ impl = "cpp"
    /\ \E l \in 1..Len(layers) : \E j \in 1..Len(layers[l]) :
            /\ call' = Call("getWeights", l, j, << >>)
            /\ ret' = Ok(<< layers[l][j].weights >>)
    /\ pc' = "returned"
    /\ UNCHANGED << impl, layerSizes, layers, rngDraws, io, file, console >>

\* neuron.getBias()
getBiasCall ==
    /\ pc = "built" /\ impl = "cpp"
    /\ \E l \in 1..Len(layers) : \E j \in 1..Len(layers[l]) :
            /\ call' = Call("getBias", l, j, << >>)
            /\ ret' = Ok(<< << layers[l][j].bias >> >>)
    /\ pc' = "returned"
    /\ UNCHANGED << impl, layerSizes, layers, rngDraws, io, file, console >>

\* layer.getNeurons(): a const reference to the neurons
getNeuronsCall ==
    /\ pc = "built" /\ impl = "cpp"
    /\ \E l \in 1..Len(layers) :
            /\ call' = Call("getNeurons", l, 0, << >>)
            /\ ret' = Ok(layers[l])
    /\ pc' = "returned"
    /\ UNCHANGED << impl, layerSizes, layers, rngDraws, io, file, console >>

\* nn.saveAsJson(filename, outputs) with the trace forward has just returned.
\* A file that does not open is reported on cout; a stream whose write fails
\* is closed without a look at its state.
saveAsJsonCall ==
    /\ pc = "returned" /\ impl = "cpp"
    /\ call.op = "forward" /\ ret.kind = "ok"
    /\ \E o \in FileOutcomes :
         /\ io' = o
         /\ file' = CASE o = "ok" ->
                           [state |-> "complete", json |-> saveAsJson_json(layers, ret.val)]
                      [] o = "open_fail" -> file
                      [] o = "write_fail" -> [state |-> "truncated", json |-> << >>]
         /\ console' = IF o = "open_fail" THEN "Unable to open file for writing." ELSE ""
    /\ pc' = "saved"
    /\ UNCHANGED << impl, layerSizes, layers, rngDraws, call, ret >>

(***************************************************************************)
(* Java operations.                                                        *)
(***************************************************************************)
\* new NeuralNetworkImpl(layerSizes);  the default constructor is
\* this(Arrays.asList(3, 3, 3)) (line 180).
NeuralNetworkImplNew ==
    /\ pc = "new" /\ impl = "java"
    /\ \E ls \in LayerSizeSeqs : \E seeds \in SeedRows(ls) :
         LET r == NeuralNetworkImpl(ls, seeds)
         IN  /\ layerSizes' = ls
             /\ layers' = r.layers
             /\ rngDraws' = r.draws
             /\ pc' = IF r.ok THEN "built" ELSE "failed"
    /\ UNCHANGED << impl, call, ret, io, file, console >>

\* neuron.activate(inputs) on neuron j of layer l
activateCall ==
    /\ pc = "built" /\ impl = "java"
    /\ \E l \in 1..Len(layers) : \E j \in 1..Len(layers[l]) : \E inputs \in InputVecs :
            /\ call' = Call("activate", l, j, inputs)
            /\ ret' = activate(layers[l][j], inputs)
    /\ pc' = "returned"
    /\ UNCHANGED << impl, layerSizes, layers, rngDraws, io, file, console >>

\* layer.activateLayer(inputs) on layer l
activateLayerCall ==
    /\ pc = "built" /\ impl = "java"
    /\ \E l \in 1..Len(layers) : \E inputs \in InputVecs :
            /\ call' = Call("activateLayer", l, 0, inputs)
            /\ ret' = activateLayer(layers[l], inputs)
    /\ pc' = "returned"
    /\ UNCHANGED << impl, layerSizes, layers, rngDraws, io, file, console >>

\* nn.forward(inputs)
NeuralNetworkImpl_forwardCall ==
    /\ pc = "built" /\ impl = "java"
    /\ \E inputs \in InputVecs :
            /\ call' = Call("forward", 0, 0, inputs)
            /\ ret' = NeuralNetworkImpl_forward(layers, inputs)
    /\ pc' = "returned"
    /\ UNCHANGED << impl, layerSizes, layers, rngDraws, io, file, console >>

\* neuron.getWeights(): the list itself
Neuron_getWeightsCall ==
    /\ pc = "built" /\ impl = "java"
    /\ \E l \in 1..Len(layers) : \E j \in 1..Len(layers[l]) :
            /\ call' = Call("getWeights", l, j, << >>)
            /\ ret' = Ok(<< layers[l][j].weights >>)
    /\ pc' = "returned"
    /\ UNCHANGED << impl, layerSizes, layers, rngDraws, io, file, console >>

\* neuron.getBias()
Neuron_getBiasCall ==
    /\ pc = "built" /\ impl = "java"
    /\ \E l \in 1..Len(layers) : \E j \in 1..Len(layers[l]) :
            /\ call' = Call("getBias", l, j, << >>)
            /\ ret' = Ok(<< << layers[l][j].bias >> >>)
    /\ pc' = "returned"
    /\ UNCHANGED << impl, layerSizes, layers, rngDraws, io, file, console >>

\* layer.getNeurons()
Layer_getNeuronsCall ==
    /\ pc = "built" /\ impl = "java"
    /\ \E l \in 1..Len(layers) :
            /\ call' = Call("getNeurons", l, 0, << >>)
            /\ ret' = Ok(layers[l])
    /\ pc' = "returned"
    /\ UNCHANGED << impl, layerSizes, layers, rngDraws, io, file, console >>

\* nn.saveAsJson(filename, outputs) with the trace forward has just returned.
\* An IOException of the FileWriter's constructor, of a write or of the
\* closing flush is caught and printed.
NeuralNetworkImpl_saveAsJsonCall ==
    /\ pc = "returned" /\ impl = "java"
    /\ call.op = "forward" /\ ret.kind = "ok"
    /\ \E o \in FileOutcomes :
         /\ io' = o
         /\ file' = CASE o = "ok" ->
                           [state |-> "complete",
                            json  |-> NeuralNetworkImpl_saveAsJson_json(layers, ret.val)]
                      [] o = "open_fail" -> file
                      [] o = "write_fail" -> [state |-> "truncated", json |-> << >>]
         /\ console' = IF o # "ok" THEN "Unable to open file for writing: " ELSE ""
    /\ pc' = "saved"
    /\ UNCHANGED << impl, layerSizes, layers, rngDraws, call, ret >>

(***************************************************************************)
(* The caller.  The test functions of both files keep what a call returned *)
(* in a local variable, use it, and let it go when they return; the        *)
(* network is then free for the next call.                                 *)
(***************************************************************************)
Discard ==
    /\ pc \in {"returned", "saved"}
    /\ ret.kind # "crash"
    /\ pc' = "built"
    /\ call' = Call("none", 0, 0, << >>)
    /\ ret' = Fail("none")
    /\ io' = "none"
    /\ file' = NoFile
    /\ console' = ""
    /\ UNCHANGED << impl, layerSizes, layers, rngDraws >>

Next ==
    \/ neuralNetworkNew
    \/ neuronActivateCall
    \/ layerActivateCall
    \/ forwardCall
    \/ getWeightsCall
    \/ getBiasCall
    \/ getNeuronsCall
    \/ saveAsJsonCall
    \/ NeuralNetworkImplNew
    \/ activateCall
    \/ activateLayerCall
    \/ NeuralNetworkImpl_forwardCall
    \/ Neuron_getWeightsCall
    \/ Neuron_getBiasCall
    \/ Layer_getNeuronsCall
    \/ NeuralNetworkImpl_saveAsJsonCall
    \/ Discard

Spec == Init /\ [][Next]_vars

(***************************************************************************)
(* The claims.                                                             *)
(***************************************************************************)
\* The network exists.
Exists == pc \in {"built", "returned", "saved"}

\* The call `op` has just returned to the caller.
Returned(op) == pc = "returned" /\ call.op = op

\* forward has just returned a trace.
ForwardOk == Returned("forward") /\ ret.kind = "ok"

\* The number a decimal text denotes, as a reader of the file parses it.
ParseNum(d) ==
    (IF d.neg THEN -1 ELSE 1) * (d.int * One + RDiv(d.frac, 5 ^ FracBits))

ParseVec(v) == [k \in 1..Len(v) |-> ParseNum(v[k])]

\* C1: forward on an input of length s_1 returns a trace of m+1 vectors, the
\* first equal to the input, the (i+1)-st of length s_i.
C1_ForwardTraceShape ==
    (/\ Returned("forward")
     /\ Len(layerSizes) >= 1
     /\ Len(call.inputs) = layerSizes[1])
    => /\ ret.kind = "ok"
       /\ Len(ret.val) = Len(layerSizes) + 1
       /\ ret.val[1] = call.inputs
       /\ \A i \in 1..Len(layerSizes) : Len(ret.val[i + 1]) = layerSizes[i]

\* The length the receiver of the last call expects: the weight count of the
\* neuron, of the layer's neurons, of the first layer's neurons; -1 when the
\* receiver has no neuron to tell it.
ExpectedLen ==
    CASE call.op = "activate" -> Len(layers[call.layer][call.neuron].weights)
      [] call.op = "activateLayer" ->
           IF Len(layers[call.layer]) = 0 THEN -1
           ELSE Len(layers[call.layer][1].weights)
      [] call.op = "forward" ->
           IF Len(layers) = 0 \/ Len(layers[1]) = 0 THEN -1
           ELSE Len(layers[1][1].weights)
      [] OTHER -> -1

\* C2: activate, activateLayer and forward on an input of the wrong length
\* (shorter or longer) end in the dimension-mismatch error and return nothing.
C2_WrongLengthFails ==
    (/\ pc = "returned"
     /\ call.op \in {"activate", "activateLayer", "forward"}
     /\ ExpectedLen >= 0
     /\ Len(call.inputs) # ExpectedLen)
    => ret.kind = "IllegalArgumentException"

\* C3: every neuron of layer 0 has as many weights as layer 0 has neurons, and
\* every neuron of a later layer as many as the layer before it has neurons.
C3_Wiring ==
    Exists =>
      \A i \in 1..Len(layers) : \A j \in 1..Len(layers[i]) :
         Len(layers[i][j].weights)
           = IF i = 1 THEN Len(layers[1]) ELSE Len(layers[i - 1])

Malformed(ls) == Len(ls) < 1 \/ \E i \in 1..Len(ls) : ls[i] <= 0

\* C4: a malformed architecture (no layer, or a neuron count <= 0) makes the
\* constructor fail before it draws any random value.
C4_MalformedRejected ==
    (pc # "new" /\ Malformed(layerSizes)) => (pc = "failed" /\ rngDraws = 0)

\* bias + sum over k of weights[k] * x[k], from the last weight down.
RECURSIVE WeightedSum(_, _, _)
WeightedSum(n, x, k) ==
    IF k = 0 THEN n.bias ELSE FMul(n.weights[k], x[k]) + WeightedSum(n, x, k - 1)

\* C5: in a returned trace, vector i+1 has one element per neuron of layer i,
\* in neuron order, the j-th being the sigmoid of
\* bias_j + sum_k weights_j[k] * trace[i][k], k over the neuron's weights.
C5_TraceIsLayerwiseActivation ==
    ForwardOk =>
      \A i \in 1..Len(layers) :
         /\ Len(ret.val[i + 1]) = Len(layers[i])
         /\ \A j \in 1..Len(layers[i]) :
               /\ Len(layers[i][j].weights) <= Len(ret.val[i])
               /\ ret.val[i + 1][j]
                    = FDiv(One, One + exp(-WeightedSum(layers[i][j], ret.val[i],
                                                       Len(layers[i][j].weights))))

C5_Witness ==
    /\ ForwardOk
    /\ Len(layers) >= 2
    /\ Len(layers[2]) >= 2
    /\ ret.val[3][1] # ret.val[3][2]
    /\ \E k \in 1..Len(layers[2][1].weights) : layers[2][1].weights[k] # 0

\* C6: once the network is constructed, no call changes a weight, a bias, the
\* number of neurons of a layer or the number of layers.
C6_ParametersImmutable == [][Exists => layers' = layers]_vars

C6_Witness ==
    /\ pc = "saved"
    /\ Len(layers) >= 2
    /\ \E i \in 1..Len(layers) : \E j \in 1..Len(layers[i]) :
          Len(layers[i][j].weights) > 0

\* C7: the record saveAsJson writes for a returned trace holds initial_input
\* = trace[0], for each layer i (from 1) layer_i_input = trace[i-1],
\* layer_i_output = trace[i] and layer_i_neurons = the {weights, bias} of
\* layer i's neurons in order, and final_output = the last vector.
C7_RecordMatchesTrace ==
    (pc = "saved" /\ io = "ok") =>
      LET j == file.json
          has(k) == k \in DOMAIN j
      IN  /\ has(Key("initial_input", 0))
          /\ ParseVec(j[Key("initial_input", 0)]) = ret.val[1]
          /\ has(Key("final_output", 0))
          /\ ParseVec(j[Key("final_output", 0)]) = ret.val[Len(ret.val)]
          /\ \A i \in 1..Len(layers) :
                /\ has(Key("layer_input", i))
                /\ ParseVec(j[Key("layer_input", i)]) = ret.val[i]
                /\ has(Key("layer_output", i))
                /\ ParseVec(j[Key("layer_output", i)]) = ret.val[i + 1]
                /\ has(Key("layer_neurons", i))
                /\ Len(j[Key("layer_neurons", i)]) = Len(layers[i])
                /\ \A n \in 1..Len(layers[i]) :
                      /\ ParseVec(j[Key("layer_neurons", i)][n].weights)
                           = layers[i][n].weights
                      /\ ParseNum(j[Key("layer_neurons", i)][n].bias)
                           = layers[i][n].bias

\* C8: a saveAsJson that cannot open or cannot write its file reports it.
C8_IoFailureReported ==
    (pc = "saved" /\ io \in {"open_fail", "write_fail"}) => console # ""

\* C9 as stated: every value of a returned trace after trace[0] lies strictly
\* between 0 and 1.
C9_OutputsInOpenInterval ==
    ForwardOk =>
      \A i \in 2..Len(ret.val) : \A k \in 1..Len(ret.val[i]) :
         0 < ret.val[i][k] /\ ret.val[i][k] < One

\* C9 as amended: every value of a returned trace after trace[0] lies between
\* 0 and 1, the ends included; so does the value a single neuron returns.
C9_OutputsInClosedInterval ==
    /\ ForwardOk =>
         \A i \in 2..Len(ret.val) : \A k \in 1..Len(ret.val[i]) :
            0 <= ret.val[i][k] /\ ret.val[i][k] <= One
    /\ (Returned("activate") /\ ret.kind = "ok") =>
         (0 <= ret.val[1][1] /\ ret.val[1][1] <= One)

C9_Witness ==
    /\ ForwardOk
    /\ \E i \in 2..Len(ret.val) : \E k \in 1..Len(ret.val[i]) : ret.val[i][k] = One
    /\ \E i \in 2..Len(ret.val) : \E k \in 1..Len(ret.val[i]) :
          0 < ret.val[i][k] /\ ret.val[i][k] < One

\* C10: in the C++ implementation the vectors of a returned trace after
\* trace[0] are those of the trace of any other input: they are the ones
\* forward returns for the empty input, whatever the input was.
C10_CppOutputsIgnoreInput ==
    (impl = "cpp" /\ Returned("forward")) =>
      /\ ret.kind = "ok"
      /\ \A g \in JunkFor(\E i \in 1..Len(layers) : \E j \in 1..Len(layers[i]) :
                              i = 1 /\ Len(layers[i][j].weights) > 0) :
            forward(layers, << >>, g) = Ok(<< << >> >> \o Tail(ret.val))

C10_Witness ==
    /\ impl = "cpp" /\ ForwardOk
    /\ Len(call.inputs) >= 2
    /\ call.inputs[1] # call.inputs[2]
    /\ Len(layers) >= 2
    /\ Len(layers[1]) >= 2 /\ Len(layers[2]) >= 1

=============================================================================
